---- MODULE Spec2Model ----
(***************************************************************************)
(* PassBuddy: a counting semaphore kept in a Redis sorted set.  Every      *)
(* coordinator (one PassBuddy object) owns a uuid; the sorted set maps the *)
(* uuids of the current holders to their expiry (score).  Acquisition is a *)
(* Lua script evaluated atomically by the store, release is one ZREM.      *)
(* The model follows the latest revision in src/index.js (lines 332-607).  *)
(*                                                                         *)
(* The coordinator of one process is modelled in full (its fields, its     *)
(* acquire() retry loop, its wrappers).  The coordinators of the other     *)
(* processes sharing the key are peers: they are known to this process     *)
(* only by the commands they make the store run.                           *)
(*                                                                         *)
(* The round trip of the acquisition script (send, execution by Redis,      *)
(* callback) is one step: Redis runs the commands of one connection in the *)
(* order they were sent, and a callback writes only the fields of its own  *)
(* coordinator.  A release is two steps, the call that sends the ZREM and  *)
(* its reply: use() reads _isHeldUntil in between without any command.     *)
(* For the acquire() of the middleware made by handler() the reply of the  *)
(* script is followed on its way back as well, since the completion        *)
(* callback of the request can send a ZREM in between.                     *)
(*                                                                         *)
(* Every instance reads its own clock, `clock` plus its skew.  The skews   *)
(* are zero except in SpecSkew, where the peers are followed with their    *)
(* _isHeldUntil as well.                                                   *)
(***************************************************************************)
EXTENDS Integers, Sequences, FiniteSets, TLC

\* ---------------------------------------------------------------- bounds
NumPeers == 2             \* further instances sharing the key
MaxTime == 5              \* last value of the wall clock
MaxCapacity == 2          \* largest capacity option explored
MaxAttemptsOpt == 2       \* the maxAttempts option explored
TTLOpt == 2               \* the TTL option explored (clock ticks)
RetryIntervalOpt == 1     \* the retryInterval option explored (clock ticks)
StaleTTL == 3             \* TTL of the stale-holder scenario
StaleMaxTime == 6         \* last value of the clock in that scenario

\* ------------------------------------------------------ program constants
DefaultCapacity == 10
DefaultTTL == 5000
DefaultMaxAttempts == 5
DefaultRetryInterval == 500

\* the coordinator of this process (const pass = new PassBuddy(...)), and
\* the coordinators of the other processes, which are its peers
Coord == {1}
Peer == {1 + n : n \in 1..NumPeers}

\* every lambda or server instance that shares the key
Instance == Coord \cup Peer

\* an option that was not supplied (JavaScript undefined)
Undefined == -1

VARIABLES
  clock,      \* Date.now()
  passOptions, \* the options object given to the constructor
  cfg,        \* the fields set by the constructor (same options for all)
  zset,       \* the sorted set of the key: member -> score
  heldUntil,  \* this._isHeldUntil of every coordinator
  acq,        \* the acquire()/use() invocation in progress of every coordinator
  relPending, \* a ZREM of the coordinator is on its way to the store
  wrap,       \* the invocation in progress of a wrapper made by bind()
  req,        \* the request going through the middleware made by handler()
  last,       \* the call that settled last, and how (history)
  skew,       \* how far the local clock of every instance is ahead of `clock`
  peerHeldUntil, \* this._isHeldUntil of the peers whose local state is followed
  peerRelFailed  \* the latest release() of the peer threw, and it did not
                 \* acquire since (history)

\* the local side of the peers and the clocks, left alone by the coordinator
peerVars == <<skew, peerHeldUntil, peerRelFailed>>

vars == <<clock, passOptions, cfg, zset, heldUntil, acq, relPending, wrap, req,
         last, skew, peerHeldUntil, peerRelFailed>>

\* ------------------------------------------------------------ constructor
Falsy(v) == v = Undefined \/ v = 0

\* a || b of JavaScript on option values
OrDefault(v, d) == IF Falsy(v) THEN d ELSE v

Constructor(options) ==
  [capacity      |-> OrDefault(options.capacity, DefaultCapacity),
   TTL           |-> OrDefault(options.TTL, DefaultTTL),
   maxAttempts   |-> OrDefault(options.maxAttempts, DefaultMaxAttempts),
   retryInterval |-> OrDefault(options.retryInterval, DefaultRetryInterval)]

OptionSpace ==
  [capacity: 1..MaxCapacity, TTL: {TTLOpt},
   maxAttempts: {MaxAttemptsOpt}, retryInterval: {RetryIntervalOpt}]

\* ------------------------------------------------------------ sorted set
\* a range that leaves out the members whose score equals max
ZREMRANGEBYSCOREExclusive(z, max) ==
  [k \in {m \in DOMAIN z : ~(z[m] < max)} |-> z[k]]

\* ZREMRANGEBYSCORE key -inf max: the range includes max
ZREMRANGEBYSCORE(z, max) ==
  [k \in {m \in DOMAIN z : ~(z[m] <= max)} |-> z[k]]

\* ZADD NX: the score of a member already in the set is left as it is
ZADDIfAbsent(z, score, member) ==
  [k \in DOMAIN z \cup {member} |-> IF k \in DOMAIN z THEN z[k] ELSE score]

\* ZADD key score member: add the member or update its score
ZADD(z, score, member) ==
  [k \in DOMAIN z \cup {member} |-> IF k = member THEN score ELSE z[k]]

ZCARD(z) == Cardinality(DOMAIN z)

\* a removal that also sweeps the records past their expiry
ZREMWithSweep(z, member) ==
  [k \in {m \in DOMAIN z \ {member} : z[m] > clock} |-> z[k]]

\* ZREM key member
ZREM(z, member) == [k \in DOMAIN z \ {member} |-> z[k]]

\* ------------------------------------------------------------ the script
\* Date.now() on instance i
Now(i) == clock + skew[i]

\* the script with the sweep threshold at the current time of the caller
GenLuaScriptSweepAtNow(uuid, capacity, TTL, now) ==
  [uuid |-> uuid, capacity |-> capacity,
   expired |-> now, expiry |-> now + TTL]

\* the values interpolated into the script text when it is generated
GenLuaScript(uuid, capacity, TTL, now) ==
  [uuid |-> uuid, capacity |-> capacity,
   expired |-> now - TTL, expiry |-> now + TTL]

\* the script with a rollback that lets one record too many stay
EvalScriptLateRollback(z, s) ==
  LET z1 == ZREMRANGEBYSCORE(z, s.expired)
      z2 == ZADD(z1, s.expiry, s.uuid)
      count == ZCARD(z2)
  IN IF count > s.capacity + 1
       THEN [zset |-> ZREM(z2, s.uuid), acquired |-> 0, expiry |-> 0]
       ELSE [zset |-> z2, acquired |-> 1, expiry |-> s.expiry]

\* the script with a rollback that starts one record too early
EvalScriptEarlyRollback(z, s) ==
  LET z1 == ZREMRANGEBYSCORE(z, s.expired)
      z2 == ZADD(z1, s.expiry, s.uuid)
      count == ZCARD(z2)
  IN IF count >= s.capacity
       THEN [zset |-> ZREM(z2, s.uuid), acquired |-> 0, expiry |-> 0]
       ELSE [zset |-> z2, acquired |-> 1, expiry |-> s.expiry]

\* the script without the removal of the member it added and refused
EvalScriptNoRollback(z, s) ==
  LET z1 == ZREMRANGEBYSCORE(z, s.expired)
      z2 == ZADD(z1, s.expiry, s.uuid)
      count == ZCARD(z2)
  IN IF count > s.capacity
       THEN [zset |-> z2, acquired |-> 0, expiry |-> 0]
       ELSE [zset |-> z2, acquired |-> 1, expiry |-> s.expiry]

\* the script as the store runs it, in one piece
EvalScript(z, s) ==
  LET z1 == ZREMRANGEBYSCORE(z, s.expired)
      z2 == ZADD(z1, s.expiry, s.uuid)
      count == ZCARD(z2)
  IN IF count > s.capacity
       THEN [zset |-> ZREM(z2, s.uuid), acquired |-> 0, expiry |-> 0]
       ELSE [zset |-> z2, acquired |-> 1, expiry |-> s.expiry]

\* ------------------------------------------------------------ local state
\* isHeld that still reports held at the instant of expiry
IsHeldInclusive(i) == heldUntil[i] >= Now(i)

IsHeld(i) == heldUntil[i] > Now(i)

\* the set is full of records past their expiry, none of them the caller's
PoolStale(i) ==
  /\ i \notin DOMAIN zset
  /\ ZCARD(zset) = cfg.capacity
  /\ \A k \in DOMAIN zset : zset[k] < Now(i)

\* op: "acquire", "use" or "bind" (the use() of a wrapper)
\* pc: "idle", "waiting" (retry timer pending) or "inflight" (the store ran
\* the script, its reply is on the way back: err and expiry hold the reply)
\* evals: executions of the script by this invocation so far
\* err: what the catch block of the latest attempt caught
\* staleSince: the time of the call when it found the pool stale, else 0
\* renew: the record of the caller was in the set when the call was made
IdleCall == [op |-> "none", pc |-> "idle", attempts |-> 0, evals |-> 0,
             wakeAt |-> 0, err |-> "none", staleSince |-> 0, renew |-> FALSE,
             expiry |-> 0]

\* pc: "idle", "using" (awaiting use()), "running" (the action returned a
\* promise that is still pending); roc: releaseOnComplete
\* released: release() calls made by the finally block of this invocation
IdleWrap == [pc |-> "idle", roc |-> FALSE, released |-> 0]

\* pc: "none", "acquiring" (awaiting acquire()), "open" (next was called)
\* aos, roe: acquireOnStart, releaseOnEnd; finished: the response was sent
\* or the connection closed; nexts: calls of next; nextErr: the error next
\* was called with; releases: release() calls of the completion callback
\* zremRan: the reply of a ZREM that the store ran already ("no" if none)
NoRequest == [pc |-> "none", aos |-> FALSE, roe |-> FALSE, finished |-> FALSE,
              nexts |-> 0, nextErr |-> "none", releases |-> 0, zremRan |-> "no"]

\* who: the coordinator; op: "acquire", "use", "release" or "bind"
\* result: "ok", "capacity" (PassBuddyCapacityError), "store"
\* (PassBuddyRedisError), "action" (what the wrapped action threw)
\* evals: script executions of the call; removed: the reply of ZREM
\* roc, raised, released: of a wrapper invocation; raised is "throw" when the
\* action threw, "reject" when its promise rejected, else "none"
NoCall == [who |-> 0, op |-> "none", result |-> "none", evals |-> 0,
           removed |-> 0, staleSince |-> 0, renew |-> FALSE,
           roc |-> FALSE, raised |-> "none", released |-> 0]

Settled(i, op, result, evals, removed, staleSince) ==
  [NoCall EXCEPT !.who = i, !.op = op, !.result = result, !.evals = evals,
                 !.removed = removed, !.staleSince = staleSince]

InitWith(options) ==
  /\ clock = 1
  /\ passOptions \in options
  /\ cfg = Constructor(passOptions)
  /\ zset = << >>
  /\ heldUntil = [i \in Coord |-> 0]
  /\ acq = [i \in Coord |-> IdleCall]
  /\ relPending = [i \in Coord |-> FALSE]
  /\ wrap = [i \in Coord |-> IdleWrap]
  /\ req = [i \in Coord |-> NoRequest]
  /\ last = NoCall
  /\ skew = [i \in Instance |-> 0]
  /\ peerHeldUntil = [p \in Peer |-> 0]
  /\ peerRelFailed = [p \in Peer |-> FALSE]

Init == InitWith(OptionSpace)

\* ---------------------------------------------------------------- actions
Tick(horizon) ==
  /\ clock < horizon
  /\ clock' = clock + 1
  /\ UNCHANGED <<passOptions, cfg, peerVars, zset, heldUntil, acq, relPending, wrap, req, last>>

\* a wrapper that calls release() after the action instead of in finally
ReleasesAfterSuccessOnly(roc, failed) == roc /\ ~failed

\* a finally block that calls release() whatever releaseOnComplete is
ReleasesAlways(roc, failed) == TRUE

\* the finally block of the wrapper: release() if releaseOnComplete
ReleasesAfter(roc, failed) == roc

\* the wrapper settles: it resolves, or rejects with what was thrown
WrapperSettled(i, w, result, raised, evals, released) ==
  /\ wrap' = [wrap EXCEPT ![i] = IdleWrap]
  /\ last' = [NoCall EXCEPT !.who = i, !.op = "bind", !.result = result,
                            !.evals = evals, !.roc = w.roc,
                            !.raised = raised, !.released = released]

\* the wrapper w after `await this.use()` settled with useResult: run the
\* action if use() succeeded, then the finally block
\* kind: the action "returns", "throws" or returns a "pending" promise
WrapperResumes(i, w, useResult, evals) ==
  \E kind \in IF useResult = "ok" THEN {"returns", "throws", "pending"}
                                  ELSE {"skipped"} :
    LET failed == kind \in {"throws", "skipped"}
        released == IF ReleasesAfter(w.roc, failed) THEN 1 ELSE 0
    IN /\ relPending' = [relPending EXCEPT ![i] = @ \/ released = 1]
       /\ CASE kind = "pending" ->
                 /\ wrap' = [wrap EXCEPT ![i] =
                               [pc |-> "running", roc |-> w.roc, released |-> released]]
                 /\ UNCHANGED last
            [] kind = "returns" -> WrapperSettled(i, w, "ok", "none", evals, released)
            [] kind = "throws" -> WrapperSettled(i, w, "action", "throw", evals, released)
            [] kind = "skipped" -> WrapperSettled(i, w, useResult, "none", evals, released)

\* the middleware rq after `await this.acquire()` settled: next() when it
\* resolved, next(err) from the catch block when it threw
HandlerResumes(i, rq, outcome) ==
  /\ req' = [req EXCEPT ![i] =
               [rq EXCEPT !.pc = "open", !.nexts = @ + 1,
                          !.nextErr = IF outcome = "ok" THEN "none" ELSE outcome]]
  /\ UNCHANGED <<wrap, relPending, last>>

\* the promise of acquire() settles: back to the consumer, to the wrapper
\* or to the middleware
Returns(i, a, w, rq, outcome) ==
  CASE a.op = "bind" ->
         /\ WrapperResumes(i, w, outcome, a.evals)
         /\ UNCHANGED req
    [] a.op = "handler" -> HandlerResumes(i, rq, outcome)
    [] OTHER ->
         /\ last' = [Settled(i, a.op, outcome, a.evals, 0, a.staleSince)
                       EXCEPT !.renew = a.renew]
         /\ UNCHANGED <<wrap, req, relPending>>

\* a catch block that allows one retry too many
RetriesOnceMore(attempts, outcome) ==
  attempts <= cfg.maxAttempts /\ outcome = "capacity"

\* a catch block that retries whatever the error
RetriesAnyError(attempts, outcome) ==
  attempts < cfg.maxAttempts

\* a catch block that retries a capacity error however many attempts were made
RetriesForever(attempts, outcome) ==
  outcome = "capacity"

\* the catch block of acquire(): retry on a capacity error, else rethrow
Retries(attempts, outcome) ==
  attempts < cfg.maxAttempts /\ outcome = "capacity"

\* what acquire() does with the outcome of one attempt
\* outcome: "ok" (res[0] = 1), "capacity" (res[0] = 0), "store" (err)
\* w, rq: the wrapper invocation or the request awaiting this call, if any
AcquireSettled(i, a, w, rq, outcome, expiry) ==
  IF outcome = "ok"
    THEN /\ heldUntil' = [heldUntil EXCEPT ![i] = expiry]
         /\ acq' = [acq EXCEPT ![i] = IdleCall]
         /\ Returns(i, a, w, rq, "ok")
    ELSE /\ UNCHANGED heldUntil
         /\ IF Retries(a.attempts, outcome)
              THEN /\ acq' = [acq EXCEPT ![i] = [a EXCEPT !.pc = "waiting",
                                !.err = outcome,
                                !.wakeAt = Now(i) + cfg.retryInterval]]
                   /\ wrap' = IF a.op = "bind" THEN [wrap EXCEPT ![i] = w] ELSE wrap
                   /\ req' = IF a.op = "handler" THEN [req EXCEPT ![i] = rq] ELSE req
                   /\ UNCHANGED <<last, relPending>>
              ELSE /\ acq' = [acq EXCEPT ![i] = IdleCall]
                   /\ Returns(i, a, w, rq, outcome)

\* _acquire: generate the script with the current time, have the store run
\* it and settle on the reply.  err: the command failed; ran: the script
\* was run by the store although the command failed.  The connection is in
\* order: the script runs after a ZREM sent before it.  late: the reply is
\* still on its way when the step ends (followed for the calls of the
\* middleware with a completion callback, which can send a ZREM in between)
Attempt(i, call, w, rq) ==
  /\ ~relPending[i]
  /\ \E err \in BOOLEAN, ran \in BOOLEAN,
        late \in IF call.op = "handler" /\ rq.roe THEN BOOLEAN ELSE {FALSE} :
       LET r == EvalScript(zset, GenLuaScript(i, cfg.capacity, cfg.TTL, Now(i)))
           a == [call EXCEPT !.evals = @ + 1]
           outcome == IF err THEN "store"
                      ELSE IF r.acquired = 1 THEN "ok" ELSE "capacity"
       IN /\ ~err => ran
          /\ zset' = IF ran THEN r.zset ELSE zset
          /\ IF late
               THEN /\ acq' = [acq EXCEPT ![i] = [a EXCEPT !.pc = "inflight",
                                 !.err = outcome, !.expiry = r.expiry]]
                    /\ req' = [req EXCEPT ![i] = rq]
                    /\ UNCHANGED <<heldUntil, relPending, wrap, last>>
               ELSE AcquireSettled(i, a, w, rq, outcome, r.expiry)

NewCall(i, op) ==
  [IdleCall EXCEPT !.op = op,
                   !.staleSince = IF PoolStale(i) THEN Now(i) ELSE 0,
                   !.renew = i \in DOMAIN zset]

\* acquire() called by the consumer with attempts = 0
Acquire(i) ==
  /\ acq[i].pc = "idle" /\ wrap[i].pc # "using"
  /\ Attempt(i, NewCall(i, "acquire"), wrap[i], req[i])
  /\ UNCHANGED <<clock, passOptions, cfg, peerVars>>

\* use(): nothing to do while the permit is held, acquire() otherwise
Use(i) ==
  /\ acq[i].pc = "idle" /\ wrap[i].pc # "using"
  /\ IF IsHeld(i)
       THEN /\ last' = Settled(i, "use", "ok", 0, 0, 0)
            /\ UNCHANGED <<zset, heldUntil, acq, relPending, wrap, req>>
       ELSE Attempt(i, NewCall(i, "use"), wrap[i], req[i])
  /\ UNCHANGED <<clock, passOptions, cfg, peerVars>>

\* the retry timer of acquire() fires: acquire(attempts + 1)
RetryTimer(i) ==
  /\ acq[i].pc = "waiting"
  /\ Now(i) >= acq[i].wakeAt
  /\ Attempt(i, [acq[i] EXCEPT !.attempts = @ + 1, !.wakeAt = 0], wrap[i], req[i])
  /\ UNCHANGED <<clock, passOptions, cfg, peerVars>>

\* release() called by the consumer: _release sends the ZREM of the own uuid
Release(i) ==
  /\ ~relPending[i]
  /\ relPending' = [relPending EXCEPT ![i] = TRUE]
  /\ UNCHANGED <<clock, passOptions, cfg, peerVars, zset, heldUntil, acq, wrap, req, last>>

\* a release() that resets the local state only when a record was removed
ReleaseSettledIfRemoved(i, err, removed) ==
  /\ heldUntil' = IF err \/ removed = 0 THEN heldUntil
                                         ELSE [heldUntil EXCEPT ![i] = 0]
  /\ last' = Settled(i, "release", IF err THEN "store" ELSE "ok",
                     0, IF err THEN 0 ELSE removed, 0)

\* release() after _release settled: reset the local state unless it threw
ReleaseSettled(i, err, removed) ==
  /\ heldUntil' = IF err THEN heldUntil ELSE [heldUntil EXCEPT ![i] = 0]
  /\ last' = Settled(i, "release", IF err THEN "store" ELSE "ok",
                     0, IF err THEN 0 ELSE removed, 0)

\* the store runs the ZREM and replies, or the reply of a ZREM that it ran
\* already arrives.  err: the command failed; ran: the store removed the
\* member although the command failed.  Replies arrive in the order of the
\* commands: after the reply of a script sent before
ReleaseReply(i) ==
  /\ relPending[i]
  /\ acq[i].pc # "inflight"
  /\ relPending' = [relPending EXCEPT ![i] = FALSE]
  /\ IF req[i].zremRan = "no"
       THEN \E err \in BOOLEAN, ran \in BOOLEAN :
              /\ ~err => ran
              /\ zset' = IF ran THEN ZREM(zset, i) ELSE zset
              /\ ReleaseSettled(i, err, IF i \in DOMAIN zset THEN 1 ELSE 0)
       ELSE /\ zset' = zset
            /\ ReleaseSettled(i, req[i].zremRan = "err",
                              IF req[i].zremRan = "removed" THEN 1 ELSE 0)
  /\ req' = [req EXCEPT ![i].zremRan = "no"]
  /\ UNCHANGED <<clock, passOptions, cfg, peerVars, acq, wrap>>

\* the store runs a ZREM sent while the reply of the script is on its way
ZremRuns(i) ==
  /\ relPending[i]
  /\ acq[i].pc = "inflight"
  /\ req[i].zremRan = "no"
  /\ \E err \in BOOLEAN, ran \in BOOLEAN :
       /\ ~err => ran
       /\ zset' = IF ran THEN ZREM(zset, i) ELSE zset
       /\ req' = [req EXCEPT ![i].zremRan =
                    IF err THEN "err"
                    ELSE IF i \in DOMAIN zset THEN "removed" ELSE "absent"]
  /\ UNCHANGED <<clock, passOptions, cfg, peerVars, heldUntil, acq, relPending, wrap, last>>

\* the reply of the script arrives: acquire() goes on with it
ScriptReply(i) ==
  /\ acq[i].pc = "inflight"
  /\ AcquireSettled(i, acq[i], wrap[i], req[i], acq[i].err, acq[i].expiry)
  /\ UNCHANGED <<clock, passOptions, cfg, peerVars, zset>>

\* a middleware that registers the completion callback after acquire()
\* returned, so that a request whose acquisition failed has none
ReleasesOnFinishIfAcquired(rq) ==
  rq.roe /\ (rq.aos => rq.pc = "open" /\ rq.nextErr = "none")

\* onFinished(res, () => this.release()), registered first if releaseOnEnd
ReleasesOnFinish(rq) == rq.roe

\* the middleware made by handler({acquireOnStart, releaseOnEnd}) is called
\* with a request: register the completion callback, then acquire() or next()
HandlerInvoke(i, aos, roe) ==
  /\ req[i].pc = "none" \/ (req[i].pc = "open" /\ req[i].finished)
  /\ acq[i].pc = "idle" /\ wrap[i].pc = "idle"
  /\ LET rq == [NoRequest EXCEPT !.pc = "acquiring", !.aos = aos, !.roe = roe,
                                 !.zremRan = req[i].zremRan] IN
       IF aos
         THEN Attempt(i, NewCall(i, "handler"), wrap[i], rq)
         ELSE /\ req' = [req EXCEPT ![i] = [rq EXCEPT !.pc = "open", !.nexts = 1]]
              /\ UNCHANGED <<zset, heldUntil, acq, relPending, wrap, last>>
  /\ UNCHANGED <<clock, passOptions, cfg, peerVars>>

\* the request finishes (response sent or connection closed): the
\* completion callback runs and calls release(), which sends the ZREM
Finish(i) ==
  /\ req[i].pc # "none" /\ ~req[i].finished
  /\ LET released == ReleasesOnFinish(req[i]) IN
       /\ req' = [req EXCEPT ![i].finished = TRUE,
                             ![i].releases = IF released THEN @ + 1 ELSE @]
       /\ relPending' = [relPending EXCEPT ![i] = @ \/ released]
  /\ UNCHANGED <<clock, passOptions, cfg, peerVars, zset, heldUntil, acq, wrap, last>>

\* the wrapper made by bind(callback, roc) is invoked: await this.use()
BindInvoke(i, roc) ==
  /\ wrap[i].pc = "idle" /\ acq[i].pc = "idle"
  /\ LET w == [pc |-> "using", roc |-> roc, released |-> 0] IN
       IF IsHeld(i)
         THEN /\ WrapperResumes(i, w, "ok", 0)
              /\ UNCHANGED <<zset, heldUntil, acq, req>>
         ELSE Attempt(i, NewCall(i, "bind"), w, req[i])
  /\ UNCHANGED <<clock, passOptions, cfg, peerVars>>

\* the promise returned by the wrapped action settles, and the wrapper with it
ActionSettles(i) ==
  /\ wrap[i].pc = "running"
  /\ \E rejects \in BOOLEAN :
       WrapperSettled(i, wrap[i], IF rejects THEN "action" ELSE "ok",
                      IF rejects THEN "reject" ELSE "none", 0, wrap[i].released)
  /\ UNCHANGED <<clock, passOptions, cfg, peerVars, zset, heldUntil, acq, relPending, req>>

\* a peer has the store run its acquisition script
PeerAcquire(p) ==
  /\ zset' = EvalScript(zset, GenLuaScript(p, cfg.capacity, cfg.TTL, Now(p))).zset
  /\ UNCHANGED <<clock, passOptions, cfg, peerVars, heldUntil, acq, relPending, wrap, req, last>>

\* a peer releases
PeerRelease(p) ==
  /\ zset' = ZREM(zset, p)
  /\ UNCHANGED <<clock, passOptions, cfg, peerVars, heldUntil, acq, relPending, wrap, req, last>>

\* what timers, the store and the peers do, whoever made the calls
Background ==
  \/ \E i \in Coord : RetryTimer(i)
  \/ \E i \in Coord : ReleaseReply(i)
  \/ \E p \in Peer : PeerAcquire(p)
  \/ \E p \in Peer : PeerRelease(p)

Calls ==
  \/ \E i \in Coord : Acquire(i)
  \/ \E i \in Coord : Use(i)
  \/ \E i \in Coord : Release(i)
  \/ Background

Next == Tick(MaxTime) \/ Calls

Spec == Init /\ [][Next]_vars

\* the stale-holder scenario: a TTL longer than the whole retry window
StaleOptionSpace ==
  [capacity: 1..MaxCapacity, TTL: {StaleTTL},
   maxAttempts: {1}, retryInterval: {RetryIntervalOpt}]

InitStale == InitWith(StaleOptionSpace)

NextStale == Tick(StaleMaxTime) \/ Calls

SpecStale == InitStale /\ [][NextStale]_vars

\* options given explicitly, left out (Undefined) or given as 0
ExplicitOptionSpace ==
  [capacity: {Undefined, 0, 1}, TTL: {TTLOpt},
   maxAttempts: {Undefined, 0, 1}, retryInterval: {RetryIntervalOpt}]

InitOptions == InitWith(ExplicitOptionSpace)

SpecOptions == InitOptions /\ [][Next]_vars

\* acquire() calls followed to their end: the clock and the timers are
\* fair, timers fire on time, and a call is started only when its retries
\* fit before the last value of the clock
TickLive ==
  /\ \A i \in Coord : acq[i].pc = "waiting" => clock < acq[i].wakeAt
  /\ Tick(MaxTime)

AcquireLive(i) ==
  /\ clock + cfg.maxAttempts * cfg.retryInterval <= MaxTime
  /\ Acquire(i)

NextLive ==
  \/ TickLive
  \/ \E i \in Coord : AcquireLive(i)
  \/ \E i \in Coord : RetryTimer(i)
  \/ \E p \in Peer : PeerAcquire(p)
  \/ \E p \in Peer : PeerRelease(p)

SpecLive ==
  /\ Init /\ [][NextLive]_vars
  /\ WF_vars(TickLive)
  /\ \A i \in Coord : WF_vars(RetryTimer(i))

\* requests served through the middleware made by handler()
NextHandler ==
  \/ Tick(MaxTime)
  \/ \E i \in Coord, aos \in BOOLEAN, roe \in BOOLEAN : HandlerInvoke(i, aos, roe)
  \/ \E i \in Coord : Finish(i)
  \/ \E i \in Coord : ScriptReply(i)
  \/ \E i \in Coord : ZremRuns(i)
  \/ Background

SpecHandler == Init /\ [][NextHandler]_vars

\* consumers that reach the semaphore through wrappers made by bind()
NextBind ==
  \/ Tick(MaxTime)
  \/ \E i \in Coord, roc \in BOOLEAN : BindInvoke(i, roc)
  \/ \E i \in Coord : ActionSettles(i)
  \/ Background

SpecBind == Init /\ [][NextBind]_vars

\* ------------------------------------------------------------ properties
\* a step in which coordinator i has the store run its script
AttemptBy(i) ==
  Acquire(i) \/ RetryTimer(i) \/ (Use(i) /\ ~(heldUntil[i] > clock))

\* the call of coordinator i settled in this step, with that result
SettledNow(i, result) ==
  acq'[i].pc = "idle" /\ last'.who = i /\ last'.result = result

\* C1: whatever the capacity and the interleaving of the instances' calls,
\* the set holds at most capacity records after every store operation
CapacityNeverExceeded == ZCARD(zset) <= cfg.capacity

\* C1 witness: a full pool of two records has turned a coordinator away
PoolFullAndRefused ==
  /\ cfg.capacity = 2
  /\ ZCARD(zset) = cfg.capacity
  /\ last.who \in Coord /\ last.result = "capacity"

\* C2 (as claimed): an attempt of any instance removes every other record
\* whose score is earlier than the caller's current time
ExpiredSweptByNextAttempt ==
  [][/\ \A i \in Coord :
          AttemptBy(i) /\ ~SettledNow(i, "store")
            => \A k \in DOMAIN zset \ {i} : (zset[k] < clock => k \notin DOMAIN zset')
     /\ \A p \in Peer :
          PeerAcquire(p)
            => \A k \in DOMAIN zset \ {p} : (zset[k] < clock => k \notin DOMAIN zset')
    ]_vars

\* C3 (as claimed): an acquire() that found the pool full of records past
\* their expiry does not fail for capacity with those records still there
StaleHoldersYield ==
  ~ /\ last.op = "acquire"
    /\ last.staleSince > 0
    /\ last.result = "capacity"
    /\ Cardinality({k \in DOMAIN zset : zset[k] < last.staleSince}) = cfg.capacity

\* C4: an attempt of a coordinator that is not a member succeeds exactly
\* when fewer than capacity records survive the sweep
NonMemberAdmittedIffRoom ==
  [][\A i \in Coord :
       AttemptBy(i) /\ i \notin DOMAIN zset /\ ~SettledNow(i, "store")
         => (SettledNow(i, "ok") /\ i \in DOMAIN zset'
               <=> Cardinality({k \in DOMAIN zset : zset[k] > clock - cfg.TTL})
                     < cfg.capacity)
    ]_vars

\* C4 witness: with capacity 1 a coordinator was turned away, retried and
\* got the permit
RetryWonFreedPermit ==
  /\ cfg.capacity = 1
  /\ last.who \in Coord /\ last.op = "acquire"
  /\ last.result = "ok" /\ last.evals = 2
  /\ DOMAIN zset = {last.who}

\* C5: acquire() runs the script at most maxAttempts + 1 times, exactly
\* that often when it fails for capacity, and every retry comes
\* retryInterval after the failed attempt
RetryBudgetInv ==
  /\ \A i \in Coord :
       acq[i].pc = "waiting"
         => (acq[i].evals = acq[i].attempts + 1 /\ acq[i].attempts < cfg.maxAttempts)
  /\ last.op \in {"acquire", "use"}
       => /\ last.evals <= cfg.maxAttempts + 1
          /\ (last.result = "capacity" => last.evals = cfg.maxAttempts + 1)

RetryBudgetStep ==
  \A i \in Coord :
    /\ (acq'[i].pc = "waiting" /\ acq'[i] # acq[i])
         => acq'[i].wakeAt = clock + cfg.retryInterval
    /\ (acq[i].pc = "waiting" /\ acq'[i] # acq[i])
         => clock >= acq[i].wakeAt

NoRetryAfterStoreError ==
  \A i \in Coord : acq[i].pc = "waiting" => acq[i].err = "capacity"

StoreErrorStep ==
  \A i \in Coord :
    /\ ((Acquire(i) \/ Use(i) \/ RetryTimer(i)) /\ SettledNow(i, "store"))
         => heldUntil'[i] = heldUntil[i]
    /\ (ReleaseReply(i) /\ last'.result = "store")
         => (heldUntil'[i] = heldUntil[i] /\ acq' = acq)

StoreErrorPropagates == []NoRetryAfterStoreError /\ [][StoreErrorStep]_vars

\* C6 witness: an acquire() of a coordinator with a held permit failed on
\* the store at its second attempt
StoreFailedOnRetry ==
  /\ last.op = "acquire" /\ last.result = "store" /\ last.evals = 2
  /\ heldUntil[last.who] > 0

\* C7: a release() that does not fail on the store leaves the record absent
\* and the local state not held, and changes nothing in the store when the
\* record was absent already
ReleaseIdempotent ==
  [][\A i \in Coord :
       ReleaseReply(i) /\ last'.result = "ok"
         => /\ i \notin DOMAIN zset'
            /\ heldUntil'[i] = 0
            /\ ~(heldUntil'[i] > clock')
            /\ (i \notin DOMAIN zset => zset' = zset /\ last'.removed = 0)
    ]_vars

\* C7 witness: a release() succeeded although the record was absent
ReleasedAbsentRecord ==
  /\ last.op = "release" /\ last.result = "ok" /\ last.removed = 0
  /\ last.who \notin DOMAIN zset /\ heldUntil[last.who] = 0

\* C8: use() with heldUntil after the local clock succeeds without touching
\* the store or heldUntil; with heldUntil at or before the clock it has the
\* store run the script
UseHeldIsLocal ==
  [][\A i \in Coord :
       Use(i) =>
         IF heldUntil[i] > clock
           THEN /\ zset' = zset /\ heldUntil' = heldUntil /\ acq' = acq
                /\ relPending' = relPending
                /\ last'.who = i /\ last'.result = "ok" /\ last'.evals = 0
           ELSE \/ acq'[i].pc = "waiting" /\ acq'[i].evals = 1
                \/ acq'[i].pc = "idle" /\ last'.who = i /\ last'.evals = 1
    ]_vars

\* C8 witness: a use() returned without a round trip while the permit was held
UseSkippedStore ==
  /\ last.op = "use" /\ last.result = "ok" /\ last.evals = 0
  /\ heldUntil[last.who] > clock

\* C9 (as claimed): a use() never runs the script more than once
UseSingleAttempt ==
  /\ \A i \in Coord : acq[i].op = "use" => acq[i].evals <= 1
  /\ last.op = "use" => last.evals <= 1

\* C9 (amended): a use() that finds the permit not held makes one acquire()
\* call: one run of the script, and one more after each capacity failure
\* while attempts < maxAttempts, maxAttempts + 1 runs when all fail
UseRetryInv ==
  /\ \A i \in Coord :
       acq[i].op = "use"
         => /\ acq[i].pc = "waiting" /\ acq[i].err = "capacity"
            /\ acq[i].evals >= 1 /\ acq[i].evals <= cfg.maxAttempts
  /\ last.op = "use"
       => /\ last.evals <= cfg.maxAttempts + 1
          /\ (last.result = "capacity" => last.evals = cfg.maxAttempts + 1)
          /\ (last.result = "store" => last.evals >= 1)

UseRetryStep ==
  \A i \in Coord :
    (acq[i].op = "use" /\ acq'[i] # acq[i])
      => \/ acq'[i].op = "use" /\ acq'[i].evals = acq[i].evals + 1
         \/ /\ acq'[i].pc = "idle" /\ last'.who = i /\ last'.op = "use"
            /\ last'.evals = acq[i].evals + 1

UseDelegatesToAcquire == []UseRetryInv /\ [][UseRetryStep]_vars

\* C9 witness: a use() ran the script maxAttempts + 1 times
UseRetried ==
  last.op = "use" /\ last.evals = cfg.maxAttempts + 1

\* C10: a wrapper made by bind(action, true) whose action throws, or returns
\* a promise that rejects, has called release() in that invocation and
\* rejects with the failure of the action; while the promise of the action
\* is pending the release() call has been made already
ReleasedOnActionFailure ==
  /\ (last.op = "bind" /\ last.roc /\ last.raised # "none")
       => (last.released = 1 /\ last.result = "action")
  /\ \A i \in Coord :
       (wrap[i].pc = "running" /\ wrap[i].roc) => wrap[i].released = 1

\* C10 (witness): the promise of the action rejected, release() was called
ActionRejectedAndReleased ==
  /\ last.op = "bind" /\ last.roc /\ last.raised = "reject"
  /\ last.released = 1 /\ last.result = "action"

\* C11 (as claimed): a wrapper made by bind(action, true) calls release()
\* only after the action has finished: while the promise returned by the
\* action is pending, this invocation has made no release() call
ReleaseAfterActionFinished ==
  \A i \in Coord :
    (wrap[i].pc = "running" /\ wrap[i].roc) => wrap[i].released = 0

\* a step of an invocation of the wrapper made by bind(action, roc)
WrapperStep(i, roc) ==
  \/ BindInvoke(i, roc)
  \/ RetryTimer(i) /\ acq[i].op = "bind" /\ wrap[i].roc = roc
  \/ ActionSettles(i) /\ wrap[i].roc = roc

\* C12: a wrapper made by bind(action) (releaseOnComplete false) makes no
\* release() call: no ZREM is sent by its steps, a use() that found the
\* permit held leaves the record and _isHeldUntil as they were, a use() that
\* acquired leaves the record in the set with the local state held, and so
\* does the action when it returns, throws or settles later
BindDefaultKeepsPermit ==
  [][\A i \in Coord :
       WrapperStep(i, FALSE) =>
         /\ relPending' = relPending
         /\ wrap'[i].released = 0
         /\ (wrap'[i].pc = "idle" /\ last'.op = "bind") => last'.released = 0
         /\ (heldUntil[i] > clock \/ ActionSettles(i))
              => (zset' = zset /\ heldUntil' = heldUntil)
         /\ (~(heldUntil[i] > clock) /\ ~ActionSettles(i)
               /\ (\/ wrap'[i].pc = "running"
                   \/ wrap'[i].pc = "idle" /\ last'.result \in {"ok", "action"}))
              => /\ i \in DOMAIN zset'
                 /\ zset'[i] = heldUntil'[i]
                 /\ heldUntil'[i] > clock'
    ]_vars

\* C12 (witness): the action of a wrapper made by bind(action) threw; the
\* record is in the set and the local state is held
ActionThrewPermitKept ==
  /\ last.op = "bind" /\ ~last.roc /\ last.raised = "throw"
  /\ last.released = 0 /\ ~relPending[last.who]
  /\ last.who \in DOMAIN zset /\ heldUntil[last.who] > clock

\* C15 (as claimed): an option given to the constructor is used as given and
\* is valid (construction fails otherwise); with maxAttempts = 0 an
\* acquire() runs the script once and does not retry
OptionsUsedAsGiven ==
  /\ passOptions.maxAttempts # Undefined
       => cfg.maxAttempts = passOptions.maxAttempts
  /\ passOptions.capacity # Undefined
       => (passOptions.capacity > 0 /\ cfg.capacity = passOptions.capacity)
  /\ passOptions.maxAttempts = 0
       => /\ \A i \in Coord : acq[i].pc = "idle"
          /\ last.op \in {"acquire", "use"} => last.evals <= 1

\* a step in which the script of coordinator i ran and its reply arrived
\* without a store error
ScriptReplied(i) ==
  /\ AttemptBy(i)
  /\ \/ acq'[i].pc = "waiting"
     \/ SettledNow(i, "ok")
     \/ SettledNow(i, "capacity")

\* C16: an execution of the script ends in one of two outcomes: acquired,
\* the record of the caller is in the set with score now + TTL and, acquire()
\* having returned, _isHeldUntil is that score; or refused, the record of the
\* caller is not in the set and _isHeldUntil is what it was
ScriptOutcomes ==
  [][\A i \in Coord :
       ScriptReplied(i) =>
         IF SettledNow(i, "ok")
           THEN /\ i \in DOMAIN zset'
                /\ zset'[i] = clock + cfg.TTL
                /\ heldUntil'[i] = clock + cfg.TTL
           ELSE /\ i \notin DOMAIN zset'
                /\ heldUntil' = heldUntil
    ]_vars

\* C16 (witness): an acquire() was refused first and acquired on a retry
RefusedThenAcquired ==
  /\ last.op = "acquire" /\ last.result = "ok" /\ last.evals >= 2
  /\ last.who \in DOMAIN zset
  /\ zset[last.who] = heldUntil[last.who]

\* C17 (as claimed): the sweep of an attempt at time now removes exactly the
\* records with score < now - TTL: a record of another instance with
\* score >= now - TTL is still in the set, with the same score
SweepBelowThreshold ==
  [][\A i \in Coord :
       ScriptReplied(i) =>
         \A k \in DOMAIN zset \ {i} :
           IF zset[k] < clock - cfg.TTL
             THEN k \notin DOMAIN zset'
             ELSE k \in DOMAIN zset' /\ zset'[k] = zset[k]
    ]_vars

\* C17 (amended): the sweep removes exactly the records with
\* score <= now - TTL: a record of another instance with score > now - TTL
\* is still in the set, with the same score, whoever ran the script
SweepUpToThreshold ==
  [][/\ \A i \in Coord :
          ScriptReplied(i) =>
            \A k \in DOMAIN zset \ {i} :
              IF zset[k] <= clock - cfg.TTL
                THEN k \notin DOMAIN zset'
                ELSE k \in DOMAIN zset' /\ zset'[k] = zset[k]
     /\ \A p \in Peer :
          PeerAcquire(p) =>
            \A k \in DOMAIN zset \ {p} :
              IF zset[k] <= clock - cfg.TTL
                THEN k \notin DOMAIN zset'
                ELSE k \in DOMAIN zset' /\ zset'[k] = zset[k]
    ]_vars

\* C17 (witness): an acquire() at time 1 + 2 TTL found the set full of
\* records past their expiry and was granted at once: a record was swept,
\* and no score is below 1 + TTL, so its score was now - TTL
BoundaryRecordSwept ==
  /\ last.op = "acquire" /\ last.result = "ok" /\ last.evals = 1
  /\ last.staleSince = clock
  /\ clock = 1 + 2 * cfg.TTL

\* C18: an acquire() by a coordinator whose record is in the set renews it:
\* unless the store fails, the first attempt is granted, the set has no
\* more records than before, and the record of the caller has score
\* now + TTL (as has _isHeldUntil)
ReacquireRenews ==
  [][\A i \in Coord :
       (Acquire(i) /\ i \in DOMAIN zset /\ ~SettledNow(i, "store")) =>
         /\ SettledNow(i, "ok") /\ last'.evals = 1
         /\ ZCARD(zset') <= ZCARD(zset)
         /\ i \in DOMAIN zset'
         /\ zset'[i] = clock + cfg.TTL
         /\ heldUntil'[i] = clock + cfg.TTL
    ]_vars

\* C18 (witness): a record was renewed while the set was at capacity and
\* time had passed since it was granted
RenewedAtCapacity ==
  /\ last.op = "acquire" /\ last.result = "ok" /\ last.renew
  /\ ZCARD(zset) = cfg.capacity
  /\ clock > 1
  /\ zset[last.who] = clock + cfg.TTL

\* the retry loop of acquire(): a waiting call moves only by its timer, to
\* the next attempt count or to one of the three results, and a capacity
\* error ends it only when maxAttempts retries were made
AcquireLoopStep ==
  \A i \in Coord :
    /\ acq'[i].pc = "waiting"
         => /\ acq'[i].attempts <= cfg.maxAttempts - 1
            /\ acq'[i].evals = acq'[i].attempts + 1
    /\ (acq[i].pc = "waiting" /\ acq'[i] # acq[i])
         => /\ RetryTimer(i)
            /\ \/ /\ acq'[i].pc = "waiting"
                  /\ acq'[i].attempts = acq[i].attempts + 1
               \/ /\ acq'[i].pc = "idle" /\ last'.who = i
                  /\ last'.result \in {"ok", "capacity", "store"}
                  /\ last'.evals = acq[i].evals + 1
                  /\ last'.evals <= cfg.maxAttempts + 1
                  /\ last'.result = "capacity"
                       => acq[i].attempts + 1 = cfg.maxAttempts

\* C19: an acquire() call whose round trips return ends in success, in a
\* capacity error or in a store error after at most maxAttempts + 1
\* attempts, whatever the peers do; the attempt count goes up by one per
\* retry and the loop has no other exit
AcquireTerminates ==
  /\ [][AcquireLoopStep]_vars
  /\ \A i \in Coord : (acq[i].pc = "waiting") ~> (acq[i].pc = "idle")

\* C19 (witness): an acquire() was granted on the last attempt it had
GrantedOnLastAttempt ==
  /\ last.op = "acquire" /\ last.result = "ok"
  /\ last.evals = cfg.maxAttempts + 1
  /\ cfg.maxAttempts = MaxAttemptsOpt

\* C20: release() removes at most the record of its own coordinator: the
\* call changes nothing in the set, the ZREM leaves every other record in
\* the set with its score and adds none, swept or not
ReleaseTouchesOwnRecordOnly ==
  [][\A i \in Coord :
       /\ Release(i) => zset' = zset
       /\ ReleaseReply(i) =>
            /\ DOMAIN zset' \subseteq DOMAIN zset
            /\ \A k \in DOMAIN zset \ {i} :
                 k \in DOMAIN zset' /\ zset'[k] = zset[k]
    ]_vars

\* C20 (witness): a release() removed the record of its coordinator and a
\* record that a sweep would have removed is still in the set
ReleasedBesideExpired ==
  /\ last.op = "release" /\ last.result = "ok" /\ last.removed = 1
  /\ last.who \notin DOMAIN zset
  /\ \E k \in DOMAIN zset : zset[k] <= clock - cfg.TTL

\* the completion callback of a request with releaseOnEnd has called
\* release() once if the request finished and not at all before
HandlerReleaseInv ==
  \A i \in Coord :
    req[i].roe => req[i].releases = IF req[i].finished THEN 1 ELSE 0

\* when such a request finishes, release() is called: the ZREM is sent
HandlerReleaseStep ==
  \A i \in Coord :
    (Finish(i) /\ req[i].roe)
      => (relPending'[i] /\ req'[i].releases = 1 /\ req'[i].finished)

\* C13: for a request passed through handler({releaseOnEnd: true}),
\* release() is called exactly once, when the request finishes, whether
\* next was called with or without an error and whether the acquisition of
\* acquireOnStart succeeded, failed or is still in progress
HandlerReleasesOnce == []HandlerReleaseInv /\ [][HandlerReleaseStep]_vars

\* C13 (witness): a request finished while its acquisition was waiting for
\* a retry, and release() was called once
FinishedWhileAcquiring ==
  \E i \in Coord :
    /\ req[i].finished /\ req[i].roe /\ req[i].aos
    /\ req[i].pc = "acquiring" /\ acq[i].pc = "waiting"
    /\ req[i].releases = 1

\* next is called in this step for the request of coordinator i
NextCalled(i) ==
  /\ req'[i].pc = "open"
  /\ \/ req[i].pc = "acquiring"
     \/ \E aos \in BOOLEAN, roe \in BOOLEAN : HandlerInvoke(i, aos, roe)

\* C14 (as claimed): for a request passed through
\* handler({acquireOnStart: true}) next is called once, without an error
\* only when the record of the coordinator is in the set at that moment
NextOnlyWithPermit ==
  [][\A i \in Coord :
       /\ req'[i].nexts <= 1
       /\ (NextCalled(i) /\ req'[i].aos /\ req'[i].nextErr = "none")
            => i \in DOMAIN zset'
    ]_vars

\* ------------------------------------------------- release() and retries
\* release() was called on coordinator i, and no call of it settled since
ReleaseCalled(i) ==
  relPending[i] \/ (last.who = i /\ last.op = "release")

\* consumers that start no acquire() or use() once release() was called; the
\* retry timers of the calls made before go on
AcquireBeforeRelease(i) ==
  /\ ~ReleaseCalled(i)
  /\ Acquire(i)

UseBeforeRelease(i) ==
  /\ ~ReleaseCalled(i)
  /\ Use(i)

NextRace ==
  \/ Tick(MaxTime)
  \/ \E i \in Coord : AcquireBeforeRelease(i)
  \/ \E i \in Coord : UseBeforeRelease(i)
  \/ \E i \in Coord : Release(i)
  \/ Background

SpecRace == Init /\ [][NextRace]_vars

\* release() of coordinator i completed, and nothing of it settled since
ReleaseCompleted(i) ==
  /\ ~relPending[i]
  /\ last.who = i /\ last.op = "release" /\ last.result = "ok"

\* C21 (as claimed): once release() has completed on a coordinator and no
\* acquire() or use() is started on it afterwards, its record stays absent
\* from the set and its local state stays not held, also when an earlier
\* acquire() was waiting in its retry delay when release() was called
ReleasedStaysReleased ==
  [][\A i \in Coord :
       ReleaseCompleted(i) => (i \notin DOMAIN zset' /\ ~(heldUntil'[i] > clock'))
    ]_vars

\* ------------------------------------------------------------ clock skew
\* isHeld of a peer
PeerIsHeld(p) == peerHeldUntil[p] > Now(p)

\* acquire() of a peer, one attempt: _isHeldUntil is set when the script
\* granted the permit (a retry is one more attempt, at a later time).  An
\* attempt that fails at the store leaves _isHeldUntil alone and is not
\* followed here
PeerAcquires(p) ==
  /\ LET r == EvalScript(zset, GenLuaScript(p, cfg.capacity, cfg.TTL, Now(p)))
         granted == r.acquired = 1
     IN /\ zset' = r.zset
        /\ peerHeldUntil' = IF granted THEN [peerHeldUntil EXCEPT ![p] = r.expiry]
                                       ELSE peerHeldUntil
        /\ peerRelFailed' = IF granted THEN [peerRelFailed EXCEPT ![p] = FALSE]
                                       ELSE peerRelFailed
  /\ UNCHANGED <<clock, passOptions, cfg, skew, heldUntil, acq, relPending,
                 wrap, req, last>>

\* release() of a peer: _isHeldUntil is reset unless _release threw
PeerReleases(p) ==
  /\ \E err \in BOOLEAN, ran \in BOOLEAN :
       /\ ~err => ran
       /\ zset' = IF ran THEN ZREM(zset, p) ELSE zset
       /\ peerHeldUntil' = IF err THEN peerHeldUntil
                                  ELSE [peerHeldUntil EXCEPT ![p] = 0]
       /\ peerRelFailed' = [peerRelFailed EXCEPT ![p] = err]
  /\ UNCHANGED <<clock, passOptions, cfg, skew, heldUntil, acq, relPending,
                 wrap, req, last>>

\* local clocks that differ by at most TTL from one instance to another.
\* The peers are numbered in the order of their clocks, and the earliest of
\* their clocks is the reference
SkewSpace(TTL) ==
  {s \in [Instance -> 0..TTL] :
     /\ \A i \in Coord : s[i] = 0
     /\ \E p \in Peer : s[p] = 0
     /\ \A a \in Peer : \A b \in Peer : a < b => s[a] <= s[b]}

InitSkew ==
  /\ clock = 1
  /\ passOptions \in OptionSpace
  /\ cfg = Constructor(passOptions)
  /\ zset = << >>
  /\ heldUntil = [i \in Coord |-> 0]
  /\ acq = [i \in Coord |-> IdleCall]
  /\ relPending = [i \in Coord |-> FALSE]
  /\ wrap = [i \in Coord |-> IdleWrap]
  /\ req = [i \in Coord |-> NoRequest]
  /\ last = NoCall
  /\ skew \in SkewSpace(cfg.TTL)
  /\ peerHeldUntil = [p \in Peer |-> 0]
  /\ peerRelFailed = [p \in Peer |-> FALSE]

\* instances with skewed clocks, each making its calls one after another:
\* the peers, followed through their script runs, their ZREMs and their
\* _isHeldUntil.  A release() is one step, so that none is in flight in
\* any state
NextSkew ==
  \/ Tick(MaxTime)
  \/ \E p \in Peer : PeerAcquires(p)
  \/ \E p \in Peer : PeerReleases(p)

SpecSkew == InitSkew /\ [][NextSkew]_vars

\* a step in which the store ran the script of another instance than k
SweptByAnother(k) == \E j \in Peer \ {k} : PeerAcquires(j)

\* no record is swept by the acquisition of another instance while the
\* instance it belongs to reports isHeld true
HeldNotSwept ==
  \A k \in Peer :
    (k \in DOMAIN zset /\ PeerIsHeld(k) /\ k \notin DOMAIN zset')
      => ~SweptByAnother(k)

\* the instances that report isHeld true
Holders == {k \in Peer : PeerIsHeld(k)}

HoldersWithinCapacity == Cardinality(Holders) <= cfg.capacity

SoundHolders == {k \in Holders : ~peerRelFailed[k]}

SoundHoldersRecorded ==
  /\ SoundHolders \subseteq DOMAIN zset
  /\ Cardinality(SoundHolders) <= cfg.capacity

====
